---------------------------- MODULE Spec2Model ----------------------------
(***************************************************************************)
(* Model of src/bot.py: the quiz bot's per-user session state machine.     *)
(*                                                                         *)
(* Every coroutine of bot.py runs on one asyncio event loop, so the code   *)
(* between two `await`s is one atomic step.  A handler that does work      *)
(* after an `await` is therefore two steps: the part before the await, and *)
(* a continuation (kept in `inflight`, with the coroutine's local          *)
(* variables) that the event loop resumes later.  Other handlers and the   *)
(* timer coroutines created by asyncio.create_task may run in between.     *)
(***************************************************************************)
EXTENDS Integers, Sequences, FiniteSets, Bags, TLC

\* Bounds of the exploration.
MaxEvents == 3    \* inbound updates (clicks, messages) in one behaviour
MaxLen    == 3    \* length of the texts normalize_answer is explored on

\* Python's None where the code's value is an integer id or an index.
None == 0

\* The one Telegram user whose updates are explored, and the id of another
\* user, who only appears as the owner of an already used code.
UserId  == 1
OtherId == 2
Users   == {UserId}

-----------------------------------------------------------------------------
(* Text.  A Python str is a sequence of characters; a character is a       *)
(* one-character string, except the four non-ASCII characters of the       *)
(* pattern of line 43, which are written by name.                          *)

Uppers == <<"A","B","C","D","E","F","G","H","I","J","K","L","M",
            "N","O","P","Q","R","S","T","U","V","W","X","Y","Z">>
Lowers == <<"a","b","c","d","e","f","g","h","i","j","k","l","m",
            "n","o","p","q","r","s","t","u","v","w","x","y","z">>
Digits == {"0","1","2","3","4","5","6","7","8","9"}

\* The character class of the first re.sub of normalize_answer.
Punctuation ==
    {"deg", "ord", "^", "bullet", "times", "*", "/", "\\", ".", ",", ";",
     ":", "!", "?", "-", "(", ")", "[", "]", "\"", "'"}

\* What str.strip() strips and what \s matches.
Whitespace == {" ", "\t", "\n", "\r", "\f"}

IsUpper(c) == \E i \in 1..Len(Uppers) : Uppers[i] = c

\* str.lower() on one character.
LowerChar(c) ==
    IF IsUpper(c) THEN Lowers[CHOOSE i \in 1..Len(Uppers) : Uppers[i] = c]
    ELSE c

\* str.lower()
Lower(s) == [i \in 1..Len(s) |-> LowerChar(s[i])]

\* str.strip(): drops the leading and the trailing whitespace only.
Strip(s) ==
    LET keep == {i \in 1..Len(s) : s[i] \notin Whitespace}
    IN  IF keep = {} THEN <<>>
        ELSE LET lo == CHOOSE i \in keep : \A j \in keep : i <= j
                 hi == CHOOSE i \in keep : \A j \in keep : j <= i
             IN  SubSeq(s, lo, hi)

\* re.sub(pattern, "", s) for a pattern that is one character class (with or
\* without +): every character of the class is deleted.
IsPunctuation(c) == c \in Punctuation
IsWhitespace(c)  == c \in Whitespace
NotPunctuation(c) == ~IsPunctuation(c)
NotWhitespace(c)  == ~IsWhitespace(c)

(* A Python value that can stand where an answer is expected: a str, or a  *)
(* non-str (None, an int) with the text str() gives for it.                *)
Text(s)    == [isstr |-> TRUE,  chars |-> s]
NonText(s) == [isstr |-> FALSE, chars |-> s]
PyNone     == NonText(<<"N","o","n","e">>)

\* str(v)
Str(v) == Text(v.chars)

\* normalize_answer without the second re.sub (line 44): whitespace inside
\* the text stays.
normalize_without_whitespace_pass(v) ==
    IF ~v.isstr THEN <<>>
    ELSE SelectSeq(Strip(Lower(v.chars)), NotPunctuation)

\* normalize_answer without str.lower() (line 41).
normalize_case_sensitive(v) ==
    IF ~v.isstr THEN <<>>
    ELSE SelectSeq(SelectSeq(Strip(v.chars), NotPunctuation), NotWhitespace)

\* normalize_answer(s), lines 38-45.  The result is a str, given as its
\* characters.
normalize_answer(v) ==
    IF ~v.isstr THEN <<>>
    ELSE LET s1 == Strip(Lower(v.chars))
             s2 == SelectSeq(s1, NotPunctuation)
         IN  SelectSeq(s2, NotWhitespace)


-----------------------------------------------------------------------------
(* Dictionaries.  A task is a Python dict, here a record that may lack a   *)
(* key; Get is dict.get(key, default).                                     *)
Get(d, key, default) == IF key \in DOMAIN d THEN d[key] ELSE default

\* The rows the tasks table can hold (load_tasks_from_supabase returns some
\* of them): a choice task, a free-text task and a task of another type,
\* which has no options, answer or explanation.
TaskBank ==
    << [type |-> "choice", question |-> "2+2?",
        options |-> <<Text(<<"3">>), Text(<<"4">>)>>,
        answer |-> Text(<<"4">>), explanation |-> "2+2=4"],
       [type |-> "text", question |-> "Capital of France?",
        answer |-> Text(<<"P","a","r","i","s">>),
        explanation |-> "Paris is the capital of France"],
       [type |-> "info", question |-> "Read the rules first"] >>

TaskIds == DOMAIN TaskBank

\* The registration codes of the codes table.
Code1    == <<"C","O","D","E","1">>
CodeKeys == {Code1}

\* The texts of the inbound text messages that are explored.
SlashTest == <<"/","t","e","s","t">>
MessageTexts ==
    { <<"p","a","r","i","s">>, <<"P","a","r","i","s">>,
      <<"P","A","R","I","S">>, <<" ","p","a","-","r","i","s","."," ">>,
      <<"R","o","m","e">>, SlashTest, Code1 }

\* The callback data of the other buttons, lines 61, 180, 171.
StartTestData == <<"s","t","a","r","t","_","t","e","s","t">>
SkipData      == <<"s","k","i","p">>
BackMenuData  == <<"b","a","c","k","_","m","e","n","u">>

\* str.startswith
StartsWith(s, prefix) ==
    Len(s) >= Len(prefix) /\ SubSeq(s, 1, Len(prefix)) = prefix

\* callback_data of an answer button, line 179: f"ans:{str(opt)}".
AnsPrefix == <<"a","n","s",":">>
AnsData(opt) == AnsPrefix \o Str(opt).chars

\* The callback data of every answer button a task of the bank renders; a
\* button stays clickable in the chat after its task is no longer current.
AnsButtons ==
    UNION { LET opts == Get(TaskBank[t], "options", <<>>)
            IN  {AnsData(opts[i]) : i \in 1..Len(opts)} : t \in TaskIds }

\* The callback data of the button clicks that are explored.
CallbackDatas == AnsButtons \cup {StartTestData, SkipData, BackMenuData}

\* call.data.split(":", 1)[1], line 204: what follows the first colon.
SplitAfterColon(data) ==
    LET colons == {i \in 1..Len(data) : data[i] = ":"}
        first  == CHOOSE i \in colons : \A j \in colons : i <= j
    IN  SubSeq(data, first + 1, Len(data))

\* F.text.regexp(r"^[A-Z0-9]{4,10}$"), line 66 (re.match; $ also matches
\* just before one trailing newline).
IsCodeChars(s) ==
    /\ Len(s) \in 4..10
    /\ \A i \in 1..Len(s) : IsUpper(s[i]) \/ s[i] \in Digits
MatchesCodeRegexp(s) ==
    \/ IsCodeChars(s)
    \/ Len(s) > 0 /\ s[Len(s)] = "\n" /\ IsCodeChars(SubSeq(s, 1, Len(s) - 1))

\* skip_task losing the task: list.pop(i) without the append.
PopWithoutAppend(tasks, i) ==
    SubSeq(tasks, 1, i) \o SubSeq(tasks, i + 2, Len(tasks))

\* skip_task putting the task back one place further instead of at the end.
PopInsertNext(tasks, i) ==
    SubSeq(tasks, 1, i)
      \o (IF i + 2 <= Len(tasks) THEN <<tasks[i + 2]>> ELSE <<>>)
      \o <<tasks[i + 1]>>
      \o SubSeq(tasks, i + 3, Len(tasks))

\* list.pop(i) followed by list.append of the popped element, lines 224-225
\* (i is 0-based).
PopAppend(tasks, i) ==
    SubSeq(tasks, 1, i) \o SubSeq(tasks, i + 2, Len(tasks)) \o <<tasks[i + 1]>>

\* The orderings random.shuffle can leave a list in, line 142.
Shuffles(list) ==
    LET n == Len(list)
        perms == {p \in [1..n -> 1..n] : \A i, j \in 1..n : p[i] = p[j] => i = j}
    IN  {[i \in 1..n |-> list[p[i]]] : p \in perms}

\* A set of rows as the list select("*") returns: in table order.
RECURSIVE SortedSeq(_)
SortedSeq(S) ==
    IF S = {} THEN <<>>
    ELSE LET m == CHOOSE x \in S : \A y \in S : x <= y
         IN  <<m>> \o SortedSeq(S \ {m})

-----------------------------------------------------------------------------
VARIABLES
    codes,          \* the codes table: code -> telegram_id (None: not bound)
    tasks_table,    \* the tasks table: the rows of TaskBank it holds
    user_sessions,  \* line 48: user id -> the session object stored (None: no key)
    heap,           \* the session dicts ever created; a session's id is its index
    timers,         \* the test_timer coroutines sleeping (line 152)
    inflight,       \* bag of handler coroutines suspended at an await, with their locals
    reports,        \* the result messages show_results has sent, in order
    shown,          \* per session: the tasks send_task has sent and the skips, in order
    loaded,         \* per session: the list begin_test loaded, before the shuffle
    last_sent,      \* which message the bot sent last (bot.send_message, message.answer)
    update,         \* the inbound update handled last
    nevents,        \* inbound updates handled so far
    norm            \* a call of normalize_answer on its own: argument and result

vars == <<codes, tasks_table, user_sessions, heap, timers, inflight, reports, shown, loaded,
          last_sent, update, nevents, norm>>

Sids == 1..Len(heap)

\* No call of normalize_answer on its own has been made.
NotCalled == [arg |-> Text(<<>>), ret |-> <<>>, calls |-> 0, prev |-> Text(<<>>)]

Init ==
    /\ codes \in [CodeKeys -> {None, UserId, OtherId}]
    /\ tasks_table \in SUBSET TaskIds
    /\ user_sessions = [u \in Users |-> None]
    /\ heap = <<>>
    /\ timers = {}
    /\ inflight = EmptyBag
    /\ reports = <<>>
    /\ shown = <<>>
    /\ loaded = <<>>
    /\ last_sent = "none"
    /\ update = [kind |-> "none", user |-> None, data |-> <<>>]
    /\ nevents = 0
    /\ norm = NotCalled

\* The part of the state the coroutines below read and write while one step
\* runs; an operator takes it and returns it changed.
Now ==
    [us |-> user_sessions, hp |-> heap, rp |-> reports, sh |-> shown,
     ld |-> loaded, inf |-> inflight, msg |-> last_sent]

\* A session dict that nothing refers to any more (it is not stored and no
\* suspended coroutine holds it) is garbage: Python frees it, and what was
\* recorded about it is dropped with it.
Freed ==
    [tasks |-> <<>>, current |-> 0, correct |-> 0, wrong |-> <<>>,
     waiting_text |-> FALSE]
Referenced(st) ==
    {st.us[u] : u \in Users} \cup {c.sid : c \in BagToSet(st.inf)}

Commit(st) ==
    /\ user_sessions' = st.us
    /\ heap' = [sid \in 1..Len(st.hp) |->
                  IF sid \in Referenced(st) THEN st.hp[sid] ELSE Freed]
    /\ reports' = st.rp
    /\ shown' = [sid \in 1..Len(st.sh) |->
                   IF sid \in Referenced(st) THEN st.sh[sid] ELSE <<>>]
    /\ loaded' = [sid \in 1..Len(st.ld) |->
                    IF sid \in Referenced(st) THEN st.ld[sid] ELSE <<>>]
    /\ inflight' = st.inf
    /\ last_sent' = st.msg

\* A coroutine suspended at an await, with the locals it resumes with.
\* (session is `sid`; a local the coroutine does not have is None or "").
Suspended(h, u, sid, task, answer) ==
    [h |-> h, user |-> u, sid |-> sid, task |-> task, answer |-> answer]

CanReceive == nevents < MaxEvents

\* show_results reading the session with get instead of pop: the report is
\* sent and the session stays stored.
show_results_without_pop(u, st, via) ==
    LET sid == st.us[u] IN
    IF sid = None THEN st
    ELSE [st EXCEPT
            !.msg = "results",
            !.rp = Append(@, [user |-> u, sid |-> sid, via |-> via,
                              correct |-> st.hp[sid].correct,
                              total |-> Len(st.hp[sid].tasks),
                              wrong |-> st.hp[sid].wrong])]

\* show_results, lines 256-274: pop, then (if there was a session) the report.
\* `via` records the caller.
show_results(u, st, via) ==
    LET sid == st.us[u] IN
    IF sid = None THEN st
    ELSE [st EXCEPT
            !.us = [@ EXCEPT ![u] = None],
            !.msg = "results",
            !.rp = Append(@, [user |-> u, sid |-> sid, via |-> via,
                              correct |-> st.hp[sid].correct,
                              total |-> Len(st.hp[sid].tasks),
                              wrong |-> st.hp[sid].wrong])]

ShowEntry(task) == [op |-> "show", task |-> task, rest |-> {}]
SkipEntry(task, rest) == [op |-> "skip", task |-> task, rest |-> rest]

\* send_task returning on an exhausted queue without the call of
\* show_results (line 166).
send_task_without_finalize(u, st) ==
    LET sid == st.us[u] IN
    IF sid = None THEN st
    ELSE LET session == st.hp[sid] IN
         IF session.current >= Len(session.tasks)
         THEN st
         ELSE LET task  == session.tasks[session.current + 1]
                  ttype == Get(TaskBank[task], "type", "choice")
                  sent  == [st EXCEPT !.sh[sid] = Append(@, ShowEntry(task)),
                                      !.msg = "task"]
              IN  IF ttype = "choice" THEN sent
                  ELSE IF ttype = "text"
                  THEN [sent EXCEPT !.hp[sid].waiting_text = TRUE]
                  ELSE [sent EXCEPT
                          !.inf = @ (+) SetToBag({Suspended("send_task", u, sid, task, <<>>)})]

\* send_task, lines 161-192, up to its await: the session is looked up by
\* user id.  For a task of another type the coroutine suspends in
\* bot.send_message (line 190) and goes on at line 191 when resumed.
send_task(u, st) ==
    LET sid == st.us[u] IN
    IF sid = None THEN st
    ELSE LET session == st.hp[sid] IN
         IF session.current >= Len(session.tasks)
         THEN show_results(u, st, "send_task")
         ELSE LET task  == session.tasks[session.current + 1]
                  ttype == Get(TaskBank[task], "type", "choice")
                  sent  == [st EXCEPT !.sh[sid] = Append(@, ShowEntry(task)),
                                      !.msg = "task"]
              IN  IF ttype = "choice" THEN sent
                  ELSE IF ttype = "text"
                  THEN [sent EXCEPT !.hp[sid].waiting_text = TRUE]
                  ELSE [sent EXCEPT
                          !.inf = @ (+) SetToBag({Suspended("send_task", u, sid, task, <<>>)})]

\* main_menu finalizing the session (with a report) instead of dropping it.
main_menu_with_report(u, st) == show_results(u, st, "main_menu")

\* main_menu, lines 58-63.
main_menu(u, st) == [st EXCEPT !.us = [@ EXCEPT ![u] = None], !.msg = "menu"]


-----------------------------------------------------------------------------
(* The handlers.  An inbound update is handled by one handler; CanReceive  *)
(* is the exploration's bound, not a condition of the code.                *)

\* A text message (kind "message", data its text) or a button click (kind
\* "callback_query", data its callback data) of user u is received.
Received(kind, u, data) ==
    /\ nevents' = nevents + 1
    /\ update' = [kind |-> kind, user |-> u, data |-> data]
    /\ UNCHANGED norm

\* load_tasks_from_supabase, lines 101-115: [] on an error, else the rows.
load_tasks_from_supabase(err) ==
    IF err THEN <<>> ELSE SortedSeq(tasks_table)

\* begin_test without the registration check.
RegistrationNotChecked(u) == TRUE

\* Lines 128 and 133: the codes table has a row with telegram_id = user_id.
Registered(u) == \E c \in CodeKeys : codes[c] = u

\* begin_test keeping the score, the misses and the position of the session
\* the user already has, with the new queue.
MergedSession(tasks) ==
    LET olds == {user_sessions[u] : u \in Users} \ {None}
    IN  IF olds = {}
        THEN [tasks |-> tasks, current |-> 0, correct |-> 0, wrong |-> <<>>,
              waiting_text |-> FALSE]
        ELSE [heap[CHOOSE sid \in olds : TRUE] EXCEPT !.tasks = tasks]

\* The session dict of lines 143-149.
NewSession(tasks) ==
    [tasks |-> tasks, current |-> 0, correct |-> 0, wrong |-> <<>>,
     waiting_text |-> FALSE]

\* begin_test, lines 126-153.  The Supabase calls are synchronous, so the
\* coroutine runs from line 128 to the await inside send_task in one step.
\*   regErr: res.error of the registration lookup;  loadErr: res.error of
\*   the select in load_tasks_from_supabase;  tasks: the shuffled list.
begin_test(u) ==
    \E regErr \in BOOLEAN, loadErr \in BOOLEAN :
        LET registered == Registered(u)
            bank == load_tasks_from_supabase(loadErr)
        IN
        IF regErr \/ ~registered \/ bank = <<>>
        THEN /\ last_sent' = IF regErr THEN "server_error"
                             ELSE IF ~registered THEN "register_first"
                             ELSE "no_tasks"
             /\ UNCHANGED <<codes, tasks_table, user_sessions, heap, timers,
                            inflight, reports, shown, loaded>>
        ELSE /\ \E tasks \in Shuffles(bank) :
                  LET sid == Len(heap) + 1
                      session == NewSession(tasks)
                      stored == [Now EXCEPT
                                   !.us = [@ EXCEPT ![u] = sid],
                                   !.hp = Append(@, session),
                                   !.sh = Append(@, <<>>),
                                   !.ld = Append(@, bank)]
                  IN  /\ Commit(send_task(u, stored))
                      /\ timers' = timers \cup {[user |-> u, sid |-> sid]}
                      /\ UNCHANGED <<codes, tasks_table>>

\* @dp.callback_query(F.data == "start_test"), lines 122-124.
start_test_callback(u, data) ==
    /\ CanReceive /\ Received("callback_query", u, data)
    /\ data = StartTestData
    /\ begin_test(u)

\* test_timer waking up and returning without the check of line 157.
test_timer_without_finalize(tm) ==
    /\ tm \in timers
    /\ \A other \in timers : tm.sid <= other.sid
    /\ timers' = timers \ {tm}
    /\ UNCHANGED <<user_sessions, heap, reports, shown, loaded, inflight,
                   last_sent, codes, tasks_table, update, nevents, norm>>

\* test_timer, lines 155-158, from the end of its sleep.  The coroutine holds
\* only user_id; `sid` records the session it was created with.  Every timer
\* sleeps the same 600 seconds, so the timers wake in the order of creation.
test_timer(tm) ==
    /\ tm \in timers
    /\ \A other \in timers : tm.sid <= other.sid
    /\ timers' = timers \ {tm}
    /\ IF user_sessions[tm.user] # None
       THEN Commit(show_results(tm.user, Now, "test_timer"))
       ELSE UNCHANGED <<user_sessions, heap, reports, shown, loaded, inflight,
                        last_sent>>
    /\ UNCHANGED <<codes, tasks_table, update, nevents, norm>>

\* What the two answer handlers do with the verdict, lines 207-212 and
\* 244-249, and where they suspend: in message.answer, before line 214/251.
Scored(u, sid, task, answer, isCorrect, h) ==
    LET pair == <<Get(TaskBank[task], "question", ""),
                  Get(TaskBank[task], "explanation", "")>>
        st1  == IF isCorrect
                THEN [Now EXCEPT !.hp[sid].correct = @ + 1, !.msg = "correct"]
                ELSE [Now EXCEPT !.hp[sid].wrong = Append(@, pair),
                                 !.msg = "incorrect"]
    IN  [st1 EXCEPT !.inf = @ (+) SetToBag({Suspended(h, u, sid, task, answer)})]

\* The comparison of the button path, line 207.
ButtonVerdict(answer, task) ==
    normalize_answer(Str(Text(answer)))
        = normalize_answer(Str(Get(TaskBank[task], "answer", PyNone)))

\* The free-text comparison without normalization: the texts as typed.
TextVerdictExact(answer, task) ==
    Text(answer) = Get(TaskBank[task], "answer", Text(<<>>))

\* The comparison of the free-text path, line 244.
TextVerdict(answer, task) ==
    normalize_answer(Text(answer))
        = normalize_answer(Get(TaskBank[task], "answer", Text(<<>>)))

\* process_answer, lines 195-212, up to its await.
process_answer(u, data) ==
    /\ CanReceive /\ Received("callback_query", u, data)
    /\ StartsWith(data, AnsPrefix)
    /\ LET sid == user_sessions[u] IN
       IF sid = None
       THEN /\ last_sent' = "no_session"
            /\ UNCHANGED <<user_sessions, heap, reports, shown, loaded, inflight>>
       ELSE IF heap[sid].current >= Len(heap[sid].tasks)
       THEN UNCHANGED <<user_sessions, heap, reports, shown, loaded, inflight,
                        last_sent>>  \* IndexError
       ELSE LET task   == heap[sid].tasks[heap[sid].current + 1]
                answer == SplitAfterColon(data)
            IN  Commit(Scored(u, sid, task, answer, ButtonVerdict(answer, task),
                              "process_answer"))
    /\ UNCHANGED <<codes, tasks_table, timers>>

\* process_text_answer, lines 234-249, up to its await; the handler of the
\* text messages no earlier handler takes.
process_text_answer(u, text) ==
    /\ CanReceive /\ Received("message", u, text)
    /\ ~MatchesCodeRegexp(text) /\ text # SlashTest
    /\ LET sid == user_sessions[u] IN
       IF sid = None \/ ~heap[sid].waiting_text
       THEN UNCHANGED <<user_sessions, heap, reports, shown, loaded, inflight,
                        last_sent>>
       ELSE IF heap[sid].current >= Len(heap[sid].tasks)
       THEN UNCHANGED <<user_sessions, heap, reports, shown, loaded, inflight,
                        last_sent>>  \* IndexError
       ELSE LET task   == heap[sid].tasks[heap[sid].current + 1]
                answer == Strip(text)
            IN  Commit(Scored(u, sid, task, answer, TextVerdict(answer, task),
                              "process_text_answer"))
    /\ UNCHANGED <<codes, tasks_table, timers>>

\* resume_answer storing the session it holds back under the user's key
\* before it calls send_task.
resume_answer_storing_back(c) ==
    /\ BagIn(c, inflight)
    /\ c.h \in {"process_answer", "process_text_answer"}
    /\ LET st0 == [Now EXCEPT !.inf = @ (-) SetToBag({c})]
           st1 == [st0 EXCEPT !.hp[c.sid].current = @ + 1,
                              !.hp[c.sid].waiting_text = FALSE,
                              !.us = [@ EXCEPT ![c.user] = c.sid]]
       IN  Commit(send_task(c.user, st1))
    /\ UNCHANGED <<codes, tasks_table, timers, update, nevents, norm>>

\* Lines 214-216 and 251-253: a suspended answer handler goes on with the
\* session object it holds, then send_task looks the user's session up anew.
resume_answer(c) ==
    /\ BagIn(c, inflight)
    /\ c.h \in {"process_answer", "process_text_answer"}
    /\ LET st0 == [Now EXCEPT !.inf = @ (-) SetToBag({c})]
           st1 == [st0 EXCEPT !.hp[c.sid].current = @ + 1,
                              !.hp[c.sid].waiting_text = FALSE]
       IN  Commit(send_task(c.user, st1))
    /\ UNCHANGED <<codes, tasks_table, timers, update, nevents, norm>>

\* Lines 191-192: send_task goes on after the message of a task of another
\* type.
resume_send_task(c) ==
    /\ BagIn(c, inflight)
    /\ c.h = "send_task"
    /\ LET st0 == [Now EXCEPT !.inf = @ (-) SetToBag({c})]
           st1 == [st0 EXCEPT !.hp[c.sid].current = @ + 1]
       IN  Commit(send_task(c.user, st1))
    /\ UNCHANGED <<codes, tasks_table, timers, update, nevents, norm>>

\* skip_task sending a result report when it finds no session, instead of
\* returning.
skip_task_reporting(u, data) ==
    /\ CanReceive /\ Received("callback_query", u, data)
    /\ data = SkipData
    /\ LET sid == user_sessions[u] IN
       IF sid = None
       THEN /\ reports' = Append(reports, [user |-> u, sid |-> None,
                                           via |-> "skip_task", correct |-> 0,
                                           total |-> 0, wrong |-> <<>>])
            /\ last_sent' = "results"
            /\ UNCHANGED <<user_sessions, heap, shown, loaded, inflight>>
       ELSE IF heap[sid].current >= Len(heap[sid].tasks)
       THEN UNCHANGED <<user_sessions, heap, reports, shown, loaded, inflight,
                        last_sent>>
       ELSE LET session == heap[sid]
                task == session.tasks[session.current + 1]
                rest == {session.tasks[i] :
                           i \in (session.current + 1)..Len(session.tasks)} \ {task}
                st1  == [Now EXCEPT
                           !.hp[sid].tasks = PopAppend(@, session.current),
                           !.hp[sid].waiting_text = FALSE,
                           !.sh[sid] = Append(@, SkipEntry(task, rest))]
            IN  Commit(send_task(u, st1))
    /\ UNCHANGED <<codes, tasks_table, timers>>

\* skip_task, lines 218-227.
skip_task(u, data) ==
    /\ CanReceive /\ Received("callback_query", u, data)
    /\ data = SkipData
    /\ LET sid == user_sessions[u] IN
       IF sid = None
       THEN UNCHANGED <<user_sessions, heap, reports, shown, loaded, inflight,
                        last_sent>>
       ELSE IF heap[sid].current >= Len(heap[sid].tasks)
       THEN UNCHANGED <<user_sessions, heap, reports, shown, loaded, inflight,
                        last_sent>>  \* IndexError
       ELSE LET session == heap[sid]
                task == session.tasks[session.current + 1]
                rest == {session.tasks[i] :
                           i \in (session.current + 1)..Len(session.tasks)} \ {task}
                st1  == [Now EXCEPT
                           !.hp[sid].tasks = PopAppend(@, session.current),
                           !.hp[sid].waiting_text = FALSE,
                           !.sh[sid] = Append(@, SkipEntry(task, rest))]
            IN  Commit(send_task(u, st1))
    /\ UNCHANGED <<codes, tasks_table, timers>>

\* go_back_menu, lines 229-231.
go_back_menu(u, data) ==
    /\ CanReceive /\ Received("callback_query", u, data)
    /\ data = BackMenuData
    /\ Commit(main_menu(u, Now))
    /\ UNCHANGED <<codes, tasks_table, timers>>

\* start_test_cmd, lines 118-120: F.text == "/test", tried after register_user.
start_test_cmd(u, text) ==
    /\ CanReceive /\ Received("message", u, text)
    /\ ~MatchesCodeRegexp(text) /\ text = SlashTest
    /\ begin_test(u)

\* register_user, lines 66-98, up to the await of line 92/95; the first
\* message handler registered, so it takes every text its pattern matches.
\*   selErr, updErr: res.error of the select and of the update.
register_user(u, text) ==
    /\ CanReceive /\ Received("message", u, text)
    /\ MatchesCodeRegexp(text)
    /\ \E selErr \in BOOLEAN, updErr \in BOOLEAN :
         LET code == Strip(text)
             goOn == inflight (+) SetToBag({Suspended("register_user", u, None, None, <<>>)})
         IN  IF selErr
             THEN last_sent' = "server_error" /\ UNCHANGED <<codes, inflight>>
             ELSE IF code \notin CodeKeys
             THEN last_sent' = "invalid_code" /\ UNCHANGED <<codes, inflight>>
             ELSE IF codes[code] = None
             THEN IF updErr
                  THEN last_sent' = "bind_error" /\ UNCHANGED <<codes, inflight>>
                  ELSE /\ codes' = [codes EXCEPT ![code] = u]
                       /\ inflight' = goOn
                       /\ last_sent' = "registered"
             ELSE IF codes[code] = u
             THEN /\ inflight' = goOn
                  /\ last_sent' = "already_registered"
                  /\ UNCHANGED codes
             ELSE last_sent' = "code_used" /\ UNCHANGED <<codes, inflight>>
    /\ UNCHANGED <<tasks_table, user_sessions, heap, timers, reports, shown, loaded>>

\* Lines 93 and 96: register_user goes on into main_menu.
resume_register_user(c) ==
    /\ BagIn(c, inflight)
    /\ c.h = "register_user"
    /\ Commit(main_menu(c.user, [Now EXCEPT !.inf = @ (-) SetToBag({c})]))
    /\ UNCHANGED <<codes, tasks_table, timers, update, nevents, norm>>

Next ==
    \/ \E u \in Users, data \in CallbackDatas : start_test_callback(u, data)
    \/ \E u \in Users, text \in MessageTexts : start_test_cmd(u, text)
    \/ \E u \in Users, text \in MessageTexts : register_user(u, text)
    \/ \E u \in Users, text \in MessageTexts : process_text_answer(u, text)
    \/ \E u \in Users, data \in CallbackDatas : process_answer(u, data)
    \/ \E u \in Users, data \in CallbackDatas : skip_task(u, data)
    \/ \E u \in Users, data \in CallbackDatas : go_back_menu(u, data)
    \/ \E tm \in timers : test_timer(tm)
    \/ \E c \in BagToSet(inflight) : resume_answer(c)
    \/ \E c \in BagToSet(inflight) : resume_send_task(c)
    \/ \E c \in BagToSet(inflight) : resume_register_user(c)

Spec == Init /\ [][Next]_vars

\* asyncio.sleep(600) returns: a sleeping timer coroutine is resumed by the
\* event loop after its delay, whatever else happens.
TimersFire == WF_vars(\E tm \in timers : test_timer(tm))
LiveSpec == Spec /\ TimersFire


-----------------------------------------------------------------------------
(* normalize_answer on its own: called on a text or a non-text value, on   *)
(* its own result, and on a text that differs from the last argument in    *)
(* one place, by the case of a letter or by one punctuation or whitespace  *)
(* character.  The session state stays as constructed.                     *)

\* The characters of the texts explored: letters of both cases, whitespace
\* and punctuation of the pattern of line 43.
NormChars == {"A", "a", "b", " ", "-", "?"}

RECURSIVE TextsOfLen(_)
TextsOfLen(n) ==
    IF n = 0 THEN {<<>>}
    ELSE {Append(t, c) : t \in TextsOfLen(n - 1), c \in NormChars}

\* The arguments of the first call: every text of at most MaxLen characters,
\* two longer texts, None and an int.
NormInputs ==
    {Text(t) : t \in UNION {TextsOfLen(n) : n \in 0..MaxLen}}
      \cup {Text(<<" ", " ", "A", "-", "B", "?", " ", " ">>),
            Text(<<"P", "a", "r", "i", "s">>),
            PyNone, NonText(<<"4">>)}

IsLower(c) == \E i \in 1..Len(Lowers) : Lowers[i] = c
\* str.swapcase() on one character.
SwapCase(c) ==
    IF IsUpper(c) THEN LowerChar(c)
    ELSE IF IsLower(c) THEN Uppers[CHOOSE i \in 1..Len(Lowers) : Lowers[i] = c]
    ELSE c

Separators == NormChars \cap (Punctuation \cup Whitespace)

\* The texts that differ from t in one place: the case of one letter, one
\* punctuation or whitespace character more, or one less.
Variants(t) ==
    {[t EXCEPT ![i] = SwapCase(t[i])] : i \in 1..Len(t)}
      \cup {SubSeq(t, 1, i) \o <<c>> \o SubSeq(t, i + 1, Len(t)) :
              i \in 0..Len(t), c \in Separators}
      \cup {SubSeq(t, 1, i - 1) \o SubSeq(t, i + 1, Len(t)) :
              i \in {j \in 1..Len(t) : t[j] \in Punctuation \cup Whitespace}}

Called(v, prev, n) ==
    [arg |-> v, ret |-> normalize_answer(v), calls |-> n, prev |-> prev]

NormInit ==
    /\ norm \in {[NotCalled EXCEPT !.arg = v] : v \in NormInputs}
    /\ codes = [c \in CodeKeys |-> None]
    /\ tasks_table = {}
    /\ user_sessions = [u \in Users |-> None]
    /\ heap = <<>>
    /\ timers = {}
    /\ inflight = EmptyBag
    /\ reports = <<>>
    /\ shown = <<>>
    /\ loaded = <<>>
    /\ last_sent = "none"
    /\ update = [kind |-> "none", user |-> None, data |-> <<>>]
    /\ nevents = 0

Session == <<codes, tasks_table, user_sessions, heap, timers, inflight, reports,
             shown, loaded, last_sent, update, nevents>>

\* normalize_answer(s)
Normalize ==
    /\ norm.calls = 0
    /\ norm' = Called(norm.arg, norm.arg, 1)
    /\ UNCHANGED Session

\* normalize_answer(normalize_answer(s))
NormalizeResult ==
    /\ norm.calls = 1
    /\ norm' = Called(Text(norm.ret), norm.arg, 2)
    /\ UNCHANGED Session

\* normalize_answer(t) for a text t that differs from s in one place.
NormalizeVariant ==
    /\ norm.calls = 1
    /\ norm.arg.isstr
    /\ \E t \in Variants(norm.arg.chars) :
         /\ Len(t) <= MaxLen
         /\ norm' = Called(Text(t), norm.arg, 1)
    /\ UNCHANGED Session

NormNext == Normalize \/ NormalizeResult \/ NormalizeVariant

NormSpec == NormInit /\ [][NormNext]_vars

-----------------------------------------------------------------------------
(* Properties.                                                             *)

Stored(sid) == \E u \in Users : user_sessions[u] = sid
ReportsOf(sid) == {i \in 1..Len(reports) : reports[i].sid = sid}
AnswerHandlers == {"process_answer", "process_text_answer"}
SuspendedAnswers == {c \in BagToSet(inflight) : c.h \in AnswerHandlers}

\* A step that sends a result report.
Reporting == Len(reports') > Len(reports)
NewReport == reports'[Len(reports')]

\* C1: a session is finalized at most once: it has at most one report, a
\* reported session is not in the Session Store, and the step that reports
\* leaves the user's key absent.
C1_FinalizedAtMostOnce ==
    /\ [](\A sid \in Sids :
            /\ Cardinality(ReportsOf(sid)) <= 1
            /\ ReportsOf(sid) # {} => ~Stored(sid))
    /\ [][Reporting =>
            /\ Len(reports') = Len(reports) + 1
            /\ user_sessions[NewReport.user] = NewReport.sid
            /\ user_sessions'[NewReport.user] = None]_vars

\* Both ways of finalizing have happened: one session was reported by
\* send_task on exhaustion and another by its timer.
C1_Witness ==
    /\ \E i \in 1..Len(reports) : reports[i].via = "send_task"
    /\ \E i \in 1..Len(reports) : reports[i].via = "test_timer"

\* C2: a timer that fires when the session it was created for is no longer
\* the stored one (finalized, discarded or replaced) changes no session and
\* sends no report.
C2_StaleTimerIsNoOp ==
    [][\A tm \in timers :
          (timers' = timers \ {tm} /\ user_sessions[tm.user] # tm.sid)
            => (user_sessions' = user_sessions /\ reports' = reports)]_vars

\* C3: a session that left the Session Store never comes back, and a step
\* that finds no session stored and creates none (the loser of a race between
\* the timer and an answer or skip) stores nothing and reports nothing.
C3_LoserIsNoOp ==
    [][/\ \A sid \in Sids : ~Stored(sid) => \A u \in Users : user_sessions'[u] # sid
       /\ \A u \in Users :
            (user_sessions[u] = None /\ Len(heap') = Len(heap))
              => (user_sessions'[u] = None /\ reports' = reports)]_vars

\* The timer lost: a session was finalized by send_task, and its timer has
\* fired since (it is no longer sleeping).
C3_Witness ==
    \E i \in 1..Len(reports) :
        /\ reports[i].via = "send_task"
        /\ [user |-> reports[i].user, sid |-> reports[i].sid] \notin timers

\* C4: an answer transition runs to completion: while an answer handler is
\* between its score update and its position advance no step changes the
\* session or the Session Store, and when it advances, the task it moves past
\* is the task it scored.
C4_RunToCompletion ==
    [][\A c \in SuspendedAnswers :
          IF BagIn(c, inflight') /\ CopiesIn(c, inflight') >= CopiesIn(c, inflight)
          THEN /\ heap'[c.sid] = heap[c.sid]
               /\ user_sessions'[c.user] = user_sessions[c.user]
          ELSE /\ user_sessions[c.user] = c.sid
               /\ heap[c.sid].current < Len(heap[c.sid].tasks)
               /\ heap[c.sid].tasks[heap[c.sid].current + 1] = c.task]_vars


IsShow(e) == e.op = "show"
IsSkip(e) == e.op = "skip"
\* The tasks a session has presented, in order.
ShownTasks(sid) ==
    LET shows == SelectSeq(shown[sid], IsShow)
    IN  [i \in 1..Len(shows) |-> shows[i].task]
Skips(sid) == SelectSeq(shown[sid], IsSkip)
IsPermutation(a, b) ==
    /\ Len(a) = Len(b)
    /\ \A x \in TaskIds :
         Cardinality({i \in 1..Len(a) : a[i] = x})
           = Cardinality({i \in 1..Len(b) : b[i] = x})

\* C5: a session that was never skipped and is finalized by exhaustion has
\* presented exactly the tasks of its stored queue, each once, in queue
\* order, and the queue is a permutation of the loaded list.
C5_EveryTaskOnceInOrder ==
    [][(Reporting /\ NewReport.via = "send_task" /\ Skips(NewReport.sid) = <<>>)
          => /\ ShownTasks(NewReport.sid) = heap[NewReport.sid].tasks
             /\ IsPermutation(heap[NewReport.sid].tasks, loaded[NewReport.sid])]_vars


\* The skipped task of entry i is presented again at entry j, and not in
\* between.
SkippedThenShownAgain(log, i, j) ==
    /\ i < j /\ IsSkip(log[i]) /\ IsShow(log[j]) /\ log[j].task = log[i].task
    /\ \A k \in (i + 1)..(j - 1) : ~(IsShow(log[k]) /\ log[k].task = log[i].task)

\* C6: skip moves the task at position to the end of the queue and leaves
\* position and the other tasks' order unchanged; and when a skipped task is
\* presented again, every other task that was at or after position when it
\* was skipped has been presented in between.
C6_SkipGoesToTheEnd ==
    /\ [](\A sid \in Sids : \A i, j \in 1..Len(shown[sid]) :
            SkippedThenShownAgain(shown[sid], i, j)
              => \A x \in shown[sid][i].rest :
                   \E k \in (i + 1)..(j - 1) :
                     IsShow(shown[sid][k]) /\ shown[sid][k].task = x)
    /\ [][\A sid \in Sids :
            Len(Skips(sid)') > Len(Skips(sid))
              => LET old == heap[sid]
                     new == heap'[sid]
                     n   == Len(old.tasks)
                 IN  /\ new.current = old.current
                     /\ Len(new.tasks) = n
                     /\ new.tasks[n] = old.tasks[old.current + 1]
                     /\ \A i \in 1..old.current : new.tasks[i] = old.tasks[i]
                     /\ \A i \in (old.current + 1)..(n - 1) :
                          new.tasks[i] = old.tasks[i + 1]]_vars

\* A task was skipped while other tasks were waiting, and has been presented
\* again.
C6_Witness ==
    \E sid \in Sids : \E i, j \in 1..Len(shown[sid]) :
        /\ SkippedThenShownAgain(shown[sid], i, j)
        /\ shown[sid][i].rest # {}


\* C7: the queue of a session keeps the length it was created with (the
\* length of the loaded list) through every step, and the total of a result
\* report is that length.
C7_DenominatorIsOriginalLength ==
    /\ [](\A sid \in Sids :
            (Stored(sid) \/ \E c \in BagToSet(inflight) : c.sid = sid)
              => Len(heap[sid].tasks) = Len(loaded[sid]))
    /\ [][Reporting => NewReport.total = Len(loaded[NewReport.sid])]_vars

\* A session that was skipped in has been reported.
C7_Witness ==
    \E i \in 1..Len(reports), sid \in Sids :
        /\ reports[i].sid = sid /\ reports[i].total >= 2
        /\ Skips(sid) # <<>>


\* The answer handlers that suspend, respectively go on, in this step.
Suspending == {c \in BagToSet(inflight') :
                 c.h \in AnswerHandlers /\ CopiesIn(c, inflight') > CopiesIn(c, inflight)}
Resuming   == {c \in SuspendedAnswers : CopiesIn(c, inflight') < CopiesIn(c, inflight)}
Alive(sid) == Stored(sid) \/ \E c \in BagToSet(inflight) : c.sid = sid
MissOf(task) ==
    <<Get(TaskBank[task], "question", ""), Get(TaskBank[task], "explanation", "")>>
ExpectedAnswer(task) == Get(TaskBank[task], "answer", PyNone)

\* C8: an answer (a button's text or a typed text) on a stored session scores the task
\* at position: correct + 1 and wrong unchanged if the normalized answer
\* equals the normalized expected answer, else the task's (question,
\* explanation) appended to wrong and correct unchanged.  When the handler
\* goes on, position grows by one and waiting_text is cleared (and set again
\* only by the presentation of a free-text task).
C8_AnswerScoresThenAdvances ==
    [][/\ \A c \in Suspending :
            LET old == heap[c.sid]
                new == heap'[c.sid]
                raw == IF update'.kind = "message" THEN update'.data
                       ELSE SplitAfterColon(update'.data)
            IN  /\ user_sessions[c.user] = c.sid
                /\ c.task = old.tasks[old.current + 1]
                /\ new.current = old.current /\ new.tasks = old.tasks
                /\ IF normalize_answer(Text(raw))
                        = normalize_answer(ExpectedAnswer(c.task))
                   THEN new.correct = old.correct + 1 /\ new.wrong = old.wrong
                   ELSE new.correct = old.correct
                        /\ new.wrong = Append(old.wrong, MissOf(c.task))
       /\ \A c \in Resuming :
            Alive(c.sid)' =>
              LET old == heap[c.sid]
                  new == heap'[c.sid]
              IN  /\ new.current = old.current + 1
                  /\ new.correct = old.correct /\ new.wrong = old.wrong
                  /\ new.waiting_text =
                       (/\ Stored(c.sid)'
                        /\ Len(ShownTasks(c.sid)') > Len(ShownTasks(c.sid))
                        /\ TaskBank[new.tasks[new.current + 1]].type = "text")]_vars

\* Both outcomes have happened in one session, a miss recorded after
\* another miss or a correct answer, and the session has advanced.
C8_Witness ==
    \E sid \in Sids :
        /\ heap[sid].current >= 1
        /\ heap[sid].correct >= 1
        /\ Len(heap[sid].wrong) >= 1


\* The user's session is waiting for a free-text answer to a task whose
\* expected answer is `text` up to letter case.
AwaitingThisAnswer(u, text) ==
    LET sid == user_sessions[u] IN
    /\ sid # None
    /\ heap[sid].waiting_text
    /\ heap[sid].current < Len(heap[sid].tasks)
    /\ LET expected == ExpectedAnswer(heap[sid].tasks[heap[sid].current + 1])
       IN  expected.isstr /\ Lower(expected.chars) = Lower(text)

\* C9: a text message that equals the expected answer up to letter case,
\* arriving while the session awaits free text, is scored as correct:
\* correct grows by one and no miss is recorded.
C9_AnyCaseAnswerIsCorrect ==
    [][\A u \in Users, text \in MessageTexts :
          (/\ AwaitingThisAnswer(u, text)
           /\ nevents' = nevents + 1
           /\ update' = [kind |-> "message", user |-> u, data |-> text])
            => LET sid == user_sessions[u]
               IN  /\ heap'[sid].correct = heap[sid].correct + 1
                   /\ heap'[sid].wrong = heap[sid].wrong]_vars

\* C10: a return to the menu (the back_menu button, or main_menu at the end
\* of register_user) leaves the user without a session, sends no report and
\* changes no score.
C10_ReturnToMenuDiscards ==
    [][\A u \in Users :
          (\/ /\ nevents' = nevents + 1
              /\ update' = [kind |-> "callback_query", user |-> u,
                             data |-> BackMenuData]
           \/ \E c \in BagToSet(inflight) :
                /\ c.h = "register_user" /\ c.user = u
                /\ CopiesIn(c, inflight') < CopiesIn(c, inflight))
            => /\ user_sessions'[u] = None
               /\ reports' = reports
               /\ \A sid \in Sids :
                    Alive(sid)' => /\ heap'[sid].correct = heap[sid].correct
                                   /\ heap'[sid].wrong = heap[sid].wrong]_vars

\* The newest session is gone without a report while its timer still sleeps:
\* it was discarded by a return to the menu.
C10_Witness ==
    /\ Len(heap) >= 1
    /\ \A u \in Users : user_sessions[u] = None
    /\ ReportsOf(Len(heap)) = {}
    /\ [user |-> UserId, sid |-> Len(heap)] \in timers


\* A step in which begin_test of user u stores a session.
BeginsTest(u) ==
    /\ nevents' = nevents + 1
    /\ update'.user = u
    /\ Len(heap') = Len(heap) + 1

\* C11: a successful begin_test of a user who has a session stores a new
\* session object in its place: position 0, no correct answer, no miss, the
\* queue a permutation of the tasks table, waiting for text only because its
\* first task, presented in the same step, is a free-text task.  The step
\* sends no report and leaves the old session object as it was.
C11_BeginTestReplaces ==
    [][\A u \in Users :
          (BeginsTest(u) /\ user_sessions[u] # None)
            => LET old == user_sessions[u]
                   new == user_sessions'[u]
               IN  /\ new = Len(heap') /\ new # old
                   /\ heap'[new].current = 0
                   /\ heap'[new].correct = 0
                   /\ heap'[new].wrong = <<>>
                   /\ IsPermutation(heap'[new].tasks, SortedSeq(tasks_table))
                   /\ heap'[new].waiting_text
                        = (TaskBank[heap'[new].tasks[1]].type = "text")
                   /\ reports' = reports
                   /\ \A sid \in Sids :
                        (sid = old /\ Alive(sid)') => heap'[sid] = heap[sid]]_vars

\* A session with a scored answer was replaced: the second session is stored
\* while a suspended handler still holds the first, and the first has a score.
C11_Witness ==
    /\ Len(heap) >= 2
    /\ user_sessions[UserId] = 2
    /\ heap[1].correct + Len(heap[1].wrong) >= 1


\* C12: the session stored for a user leaves the Session Store only in a step
\* that finalizes it (send_task on an exhausted queue, or the timer), in the
\* handling of a click on the return-to-menu button, or in a begin_test that
\* replaces it; no other step, and no handling of a text message other than
\* the start command, removes it.
C12_RemovedOnlyByLifecycle ==
    [][\A u \in Users :
          (user_sessions[u] # None /\ user_sessions'[u] # user_sessions[u])
            => \/ /\ Reporting
                  /\ NewReport.sid = user_sessions[u]
                  /\ NewReport.via \in {"send_task", "test_timer"}
               \/ /\ nevents' = nevents + 1
                  /\ update' = [kind |-> "callback_query", user |-> u,
                                 data |-> BackMenuData]
               \/ BeginsTest(u)]_vars


\* The start command or the start button of user u is handled in this step.
StartRequested(u) ==
    /\ nevents' = nevents + 1
    /\ \/ update' = [kind |-> "callback_query", user |-> u, data |-> StartTestData]
       \/ update' = [kind |-> "message", user |-> u, data |-> SlashTest]
\* A row of the codes table is bound to user u.
HasBoundCode(u) == \E c \in CodeKeys : codes[c] = u
BeginTestFailures == {"server_error", "register_first", "no_tasks"}

\* C13: a begin_test of a user who is not registered, or with an empty tasks
\* table, fails; and a begin_test that fails (for these reasons or because a
\* Supabase call returned an error) stores no session, creates none, starts
\* no timer and sends no report: the Session Store is as it was.  A
\* begin_test that does not fail found the user registered and a task.
C13_FailedBeginTestChangesNothing ==
    [][\A u \in Users :
          StartRequested(u)
            => /\ (~HasBoundCode(u) \/ tasks_table = {})
                    => last_sent' \in BeginTestFailures
               /\ last_sent' \in BeginTestFailures
                    => /\ user_sessions' = user_sessions
                       /\ heap' = heap
                       /\ timers' = timers
                       /\ reports' = reports
               /\ last_sent' \notin BeginTestFailures
                    => HasBoundCode(u) /\ tasks_table # {} /\ BeginsTest(u)]_vars

\* A begin_test failed on a Supabase error while the user had a session
\* stored, and the session is still there.
C13_Witness ==
    /\ update.data \in {StartTestData, SlashTest}
    /\ last_sent = "server_error"
    /\ user_sessions[UserId] # None


\* An answer click, a skip click or a text message other than the start
\* command of user u is handled in this step.
AnswerSkipOrText(u) ==
    /\ nevents' = nevents + 1
    /\ update'.user = u
    /\ \/ update'.kind = "callback_query" /\ StartsWith(update'.data, AnsPrefix)
       \/ update'.kind = "callback_query" /\ update'.data = SkipData
       \/ update'.kind = "message" /\ update'.data # SlashTest

\* C14: an answer click, a skip click or a text message that arrives while
\* the user has no session stored creates and stores no session, changes no
\* session object (so no score), starts no timer and sends no report; and
\* unless the text is taken by the registration handler, no coroutine is left
\* suspended.
C14_NoSessionEventIsNoOp ==
    [][\A u \in Users :
          (AnswerSkipOrText(u) /\ user_sessions[u] = None)
            => /\ user_sessions' = user_sessions
               /\ heap' = heap
               /\ reports' = reports
               /\ timers' = timers
               /\ ~MatchesCodeRegexp(update'.data) => inflight' = inflight]_vars

\* An answer button was clicked after the session had been finalized: a
\* report exists, no session is stored and the bot said so.
C14_Witness ==
    /\ Len(reports) >= 1
    /\ user_sessions[UserId] = None
    /\ last_sent = "no_session"


\* The timer coroutine begin_test created with session sid.
TimerOf(u, sid) == [user |-> u, sid |-> sid]

\* C15: every stored session is eventually out of the Session Store, given
\* only that sleeping timers wake up: whatever is stored, later the user has
\* no session stored (so the one that was stored has been removed, if not
\* before by a replacement); the timer created with a session is
\* asleep as long as the session is stored, and a timer that wakes up while
\* the user has a session stored removes and reports it, whatever its
\* position.
C15_EverySessionIsRemoved ==
    /\ []<>(\A u \in Users : user_sessions[u] = None)
    /\ [](\A u \in Users :
            user_sessions[u] # None => TimerOf(u, user_sessions[u]) \in timers)
    /\ [][\A tm \in timers :
            (timers' = timers \ {tm} /\ user_sessions[tm.user] # None)
              => /\ user_sessions'[tm.user] = None
                 /\ Reporting
                 /\ NewReport.sid = user_sessions[tm.user]
                 /\ NewReport.via = "test_timer"]_vars

\* The timer finalized a session in which the user only skipped: it was
\* reported by the timer with no answer scored, after a skip.
C15_Witness ==
    \E i \in 1..Len(reports) :
        /\ reports[i].via = "test_timer"
        /\ reports[i].correct = 0 /\ reports[i].wrong = <<>>
        /\ reports[i].total >= 2
        /\ update.data = SkipData


\* C16: normalize_answer is idempotent: called on its own result, it
\* returns that result.
C16_NormalizeIsIdempotent ==
    [][norm'.calls = 2 => norm'.ret = norm.ret]_vars

\* normalize_answer was called on the result of a call that had changed its
\* argument and left something of it.
C16_Witness ==
    /\ norm.calls = 2
    /\ norm.ret # <<>>
    /\ norm.prev.isstr /\ norm.prev.chars # norm.ret


\* C17: two texts that differ in one place, by the case of a letter or by
\* one character of the punctuation set or one whitespace character, at the
\* ends or inside, have the same normalized form (and so have texts that
\* differ in any number of such places); "  A-B?  " normalizes to "ab", as
\* "ab" does; and a value that is not a str normalizes to the empty string.
C17_NormalizeIsInsensitive ==
    /\ [][(norm.calls = 1 /\ norm'.calls = 1) => norm'.ret = norm.ret]_vars
    /\ [](norm.calls >= 1 =>
            /\ ~norm.arg.isstr => norm.ret = <<>>
            /\ norm.arg \in {Text(<<" ", " ", "A", "-", "B", "?", " ", " ">>),
                             Text(<<"a", "b">>)}
                 => norm.ret = <<"a", "b">>)

\* After a call on a text, normalize_answer was called on a text that has a
\* capital letter, a space inside and a punctuation character, and one more
\* or one less of them than the first text; the result is not empty.
C17_Witness ==
    /\ norm.calls = 1
    /\ norm.prev # norm.arg
    /\ norm.arg.chars = <<"A", " ", "?">>
    /\ norm.ret = <<"a">>


\* A coroutine that holds session sid goes on in this step and advances its
\* position (lines 191, 214, 251).
AdvancingOn(sid) ==
    \E c \in BagToSet(inflight) :
        /\ c.sid = sid
        /\ c.h \in AnswerHandlers \cup {"send_task"}
        /\ CopiesIn(c, inflight') < CopiesIn(c, inflight)

SuspendedFallbacks == {c \in BagToSet(inflight) : c.h = "send_task"}

\* C19: a task of another kind is passed in one go: from its presentation
\* until send_task goes on, no step changes the session (its score, misses,
\* queue or position), so the task is never answered or skipped; and when
\* send_task goes on, position grows by exactly one, with correct and wrong
\* as they were.
C19_OtherKindAutoAdvances ==
    [][\A c \in SuspendedFallbacks :
          IF CopiesIn(c, inflight') >= CopiesIn(c, inflight)
          THEN heap'[c.sid] = heap[c.sid]
          ELSE Alive(c.sid)'
                 => /\ heap[c.sid].tasks[heap[c.sid].current + 1] = c.task
                    /\ heap'[c.sid].current = heap[c.sid].current + 1
                    /\ heap'[c.sid].correct = heap[c.sid].correct
                    /\ heap'[c.sid].wrong = heap[c.sid].wrong]_vars


\* C20: in every state the correct answers and the misses of a stored
\* session are together at most the tasks of its queue, and a result report
\* never gives more correct answers, or more answers, than tasks.
C20_ScoreWithinQueue ==
    /\ \A u \in Users :
         user_sessions[u] # None
           => heap[user_sessions[u]].correct + Len(heap[user_sessions[u]].wrong)
                <= Len(heap[user_sessions[u]].tasks)
    /\ \A i \in 1..Len(reports) :
         /\ reports[i].correct <= reports[i].total
         /\ reports[i].correct + Len(reports[i].wrong) <= reports[i].total

=============================================================================
